---- MODULE Spec2Model ----
(***************************************************************************)
(* linker-sections: startup-time initialisation of linker sections.        *)
(*                                                                         *)
(* The model follows linker-sections/src/lib.rs: the macros init_sections! *)
(* and init_sections_with_prefixes! generate one function per section and  *)
(* the aggregator __init_sections, which calls them in the listed order;   *)
(* each section function resolves three linker symbols and calls           *)
(* section_init(dst, end, src), which validates (feature "asserts"),       *)
(* computes the length in u32 words and copies.                            *)
(*                                                                         *)
(* Memory is byte addressed.  Addresses, lengths and the usize arithmetic  *)
(* are scaled down: the machine of the model has UsizeBits-bit addresses   *)
(* and MemWords words of memory.                                           *)
(***************************************************************************)
EXTENDS Integers, Sequences, FiniteSets, TLC

\* ------------------------------------------------------------------ bounds
MemWords == 4         \* words of memory the model's machine has
MaxRegions == 2       \* longest list of sections handed to the macro
UsizeBits == 8        \* width of usize on the model's machine

\* --------------------------------------------------------- program constants
WordSize == 4         \* size_of::<u32>(): dst, end and src are u32 pointers

MemBytes == WordSize * MemWords
UsizeMod == 2 ^ UsizeBits
Bytes    == 0 .. (MemBytes - 1)
WordAddrs == {WordSize * w : w \in 0 .. (MemWords - 1)}

VARIABLES
    asserts,   \* cfg(feature = "asserts") of the build
    syms,      \* the linker's symbol table: symbol name -> address
    entry,     \* which macro pre_init uses
    args,      \* the macro's arguments, as written by the caller
    calls,     \* body of the generated __init_sections: <<name, beg, end, src>> per section
    pc,        \* position of the run
    idx,       \* 1-based position in the body of __init_sections
    dst, end, src,  \* arguments of the running section_init
    len,       \* local `len` of section_init
    mem,       \* memory, byte by byte
    mem0,      \* memory when pre_init started                          (history)
    memCall,   \* memory when the running section_init was called       (history)
    log        \* calls and returns of the section functions, in order  (history)

vars == <<asserts, syms, entry, args, calls, pc, idx, dst, end, src, len,
          mem, mem0, memCall, log>>

\* ------------------------------------------------------------ macro layer

\* The default convention of init_sections!: __s, __e, __si.
DefaultPrefixes == <<"__s", "__e", "__si">>

\* Mutant of init_sections: the end and source prefixes change places.
init_sections_swapped_prefixes(names) ==
    [i \in 1 .. Len(names) |-> <<names[i], "__s", "__si", "__e">>]

\* init_sections!(n1, ..., nk) rewrites to
\* init_sections_with_prefixes!(n1(__s, __e, __si), ..., nk(__s, __e, __si)).
init_sections(names) ==
    [i \in 1 .. Len(names) |->
        <<names[i], DefaultPrefixes[1], DefaultPrefixes[2], DefaultPrefixes[3]>>]

\* Mutant of init_sections_with_prefixes: the section functions are called in
\* the reverse of the written order.
init_sections_with_prefixes_reversed(items) ==
    [i \in 1 .. Len(items) |->
        [name |-> items[Len(items) + 1 - i][1], beg |-> items[Len(items) + 1 - i][2],
         end |-> items[Len(items) + 1 - i][3], src |-> items[Len(items) + 1 - i][4]]]

\* Mutant of init_sections_with_prefixes: the last of several items is dropped.
init_sections_with_prefixes_dropping_last(items) ==
    [i \in 1 .. (IF Len(items) > 1 THEN Len(items) - 1 ELSE Len(items)) |->
        [name |-> items[i][1], beg |-> items[i][2],
         end |-> items[i][3], src |-> items[i][4]]]

\* init_sections_with_prefixes!(n1(b, e, s), ...) generates fn __init_sections
\* whose body defines and calls one function per item, in the order written.
init_sections_with_prefixes(items) ==
    [i \in 1 .. Len(items) |->
        [name |-> items[i][1], beg |-> items[i][2],
         end |-> items[i][3], src |-> items[i][4]]]

\* concat_idents!(prefix, section_name)
concat_idents(prefix, name) == prefix \o name

\* section_init_with_prefixes!(name(beg, end, src)): the addresses of the three
\* extern statics, in the order they are handed to section_init(dst, end, src).
section_init_with_prefixes(c, table) ==
    [dst |-> table[concat_idents(c.beg, c.name)],
     end |-> table[concat_idents(c.end, c.name)],
     src |-> table[concat_idents(c.src, c.name)]]

\* ----------------------------------------------------------- section_init

\* Mutant of AssertOrderAlign: the alignment of end is not asserted.
AssertOrderAlign_NoEndCheck(d, e, s) ==
    /\ d <= e
    /\ s % WordSize = 0
    /\ d % WordSize = 0

\* The first assert block (cfg(feature = "asserts")):
\*   assert!(dst as *const u32 <= end);
\*   assert!(src as usize % 4 == 0); assert!(dst as usize % 4 == 0);
\*   assert!(end as usize % 4 == 0);
AssertOrderAlign(d, e, s) ==
    /\ d <= e
    /\ s % WordSize = 0
    /\ d % WordSize = 0
    /\ e % WordSize = 0

\* end.offset_from(dst) as usize: the distance in units of u32.  The distance in
\* bytes must be a multiple of 4; when it is not the call is undefined and a
\* build divides rounding down (a shift) or towards zero.  A negative result
\* wraps in the cast to usize.
offset_from(e, d) ==
    LET diff  == e - d
        floor == diff \div WordSize
        trunc == IF diff >= 0 THEN diff \div WordSize ELSE -((-diff) \div WordSize)
    IN IF diff % WordSize = 0
       THEN {floor % UsizeMod}
       ELSE {floor % UsizeMod, trunc % UsizeMod}

\* Mutant of AssertNoOverlap: the length is taken in bytes, the comparisons
\* stay strict.
AssertNoOverlap_Bytes(s, d, l) ==
    s > d + WordSize * l \/ s + WordSize * l < d

\* Mutant of AssertNoOverlap: the assertion never fails.
AssertNoOverlap_Skipped(s, d, l) == TRUE

\* The second assert block: with src, dst as usize and len in words,
\*   assert!(src > dst + len || src + len < dst);
AssertNoOverlap(s, d, l) ==
    s > d + l \/ s + l < d

\* One u32 read from address a (4 bytes), and one u32 written to address a.
LoadWord(m, a) == [i \in 0 .. (WordSize - 1) |-> m[a + i]]
StoreWord(m, a, w) ==
    [b \in Bytes |-> IF b >= a /\ b < a + WordSize THEN w[b - a] ELSE m[b]]

InMemory(a, n) == a >= 0 /\ a + n <= MemBytes
RangesDisjoint(s, d, n) == s + n <= d \/ d + n <= s

\* A copy of k words from s to d, lowest address first.  It stops with a fault
\* at the first word that is not inside memory.
RECURSIVE CopyForward(_, _, _, _)
CopyForward(m, s, d, k) ==
    IF k = 0 THEN [mem |-> m, fault |-> FALSE]
    ELSE IF ~InMemory(s, WordSize) \/ ~InMemory(d, WordSize)
         THEN [mem |-> m, fault |-> TRUE]
         ELSE CopyForward(StoreWord(m, d, LoadWord(m, s)),
                          s + WordSize, d + WordSize, k - 1)

\* The same copy, highest address first.
RECURSIVE CopyBackward(_, _, _, _)
CopyBackward(m, s, d, k) ==
    IF k = 0 THEN [mem |-> m, fault |-> FALSE]
    ELSE LET o == WordSize * (k - 1)
         IN CopyBackward(StoreWord(m, d + o, LoadWord(m, s + o)), s, d, k - 1)

\* A copy that reads the whole source before it writes (memmove).
CopyBuffered(m, s, d, k) ==
    [mem |-> [b \in Bytes |->
                 IF b >= d /\ b < d + WordSize * k THEN m[s + (b - d)] ELSE m[b]],
     fault |-> FALSE]

\* Mutant of copy_nonoverlapping: len counts bytes, a quarter is copied.
copy_counting_bytes(m, s, d, l) ==
    {[mem |-> [b \in Bytes |->
                  IF b >= d /\ b < d + l /\ s + (b - d) < MemBytes
                  THEN m[s + (b - d)] ELSE m[b]],
      fault |-> FALSE]}

\* Mutant of copy_nonoverlapping: one word too many is copied.
copy_one_word_more(m, s, d, l) == {CopyForward(m, s, d, l + 1)}

\* core::ptr::copy_nonoverlapping(src, dst, len) on u32 pointers: len words,
\* 4 * len bytes.  The set holds every result a build can produce.  The call
\* is defined when both ranges lie in memory, both pointers are 4-byte
\* aligned and the ranges are disjoint (and always copies nothing for len =
\* 0); then the three copies agree.  Otherwise the behaviour is undefined: the
\* words may be moved in either direction or buffered, an unaligned access
\* may trap, and a copy that leaves memory faults.
copy_nonoverlapping(m, s, d, l) ==
    LET n == WordSize * l
        inside == InMemory(s, n) /\ InMemory(d, n)
        aligned == s % WordSize = 0 /\ d % WordSize = 0
        trap == [mem |-> m, fault |-> TRUE]
    IN IF l = 0 THEN {[mem |-> m, fault |-> FALSE]}
       ELSE IF inside /\ aligned /\ RangesDisjoint(s, d, n)
            THEN {CopyForward(m, s, d, l)}
            ELSE {CopyForward(m, s, d, l)}
                 \cup (IF inside
                       THEN {CopyBackward(m, s, d, l), CopyBuffered(m, s, d, l)}
                       ELSE {trap})
                 \cup (IF aligned THEN {} ELSE {trap})

\* ------------------------------------------------------------ initial states

Range(s) == {s[i] : i \in 1 .. Len(s)}

\* Section names the caller may list, and the lists: the first k names.
NamePool == <<"a", "b", "c">>
NameLists == {SubSeq(NamePool, 1, k) : k \in 1 .. MaxRegions}

\* A second naming convention a linker script may use.
CustomPrefixes == <<"_vma_start_", "_vma_end_", "_lma_start_">>

\* The macro that pre_init invokes.
Shorthand == "init_sections"
Explicit  == "init_sections_with_prefixes"

\* The symbols the linker script defines: for each section n with convention
\* conv[n], the three symbols prefix ++ n, bound to the addresses
\* desc[n] = <<start of the VMA range, its end, start of the LMA image>>.
SymbolTable(names, conv, desc) ==
    LET keys == Range(names) \X (1 .. 3)
        sym(k) == concat_idents(conv[k[1]][k[2]], k[1])
    IN [s \in {sym(k) : k \in keys} |->
           LET k == CHOOSE k \in keys : sym(k) = s IN desc[k[1]][k[2]]]

\* The flash image and the RAM before initialisation: every byte differs.
InitialImage == [b \in Bytes |-> b + 1]

\* A build (asserts on or off), a macro invocation and a linker script.
InitFrom(Lists, Entries, Conventions, Descriptors) ==
    /\ asserts \in BOOLEAN
    /\ entry \in Entries
    /\ \E names \in Lists :
       \E conv \in [Range(names) -> Conventions] :
       \E desc \in [Range(names) -> Descriptors] :
          \* an undefined symbol does not link: the shorthand needs the default names
          /\ entry = Shorthand => \A n \in Range(names) : conv[n] = DefaultPrefixes
          /\ args = IF entry = Shorthand
                    THEN names
                    ELSE [i \in 1 .. Len(names) |-> <<names[i]>> \o conv[names[i]]]
          /\ syms = SymbolTable(names, conv, desc)
    /\ calls = <<>>
    /\ pc = "pre_init"
    /\ idx = 0
    /\ dst = 0 /\ end = 0 /\ src = 0 /\ len = 0
    /\ mem = InitialImage
    /\ mem0 = InitialImage
    /\ memCall = InitialImage
    /\ log = <<>>

\* Addresses a linker script may give: every even address of memory and its end.
EvenAddrs == {2 * k : k \in 0 .. (MemBytes \div 2)}

\* Every descriptor over the even addresses whose source range, when the
\* destination range is well formed, lies in memory.
AllDescriptors ==
    {t \in EvenAddrs \X EvenAddrs \X EvenAddrs : t[1] <= t[2] => t[3] + (t[2] - t[1]) <= MemBytes}

\* ----------------------------------------------------------------- actions

\* pre_init expands the macro: init_sections! goes through
\* init_sections_with_prefixes!, which generates __init_sections and calls it.
PreInit ==
    /\ pc = "pre_init"
    /\ calls' = IF entry = Shorthand
                THEN init_sections_with_prefixes(init_sections(args))
                ELSE init_sections_with_prefixes(args)
    /\ idx' = 1
    /\ pc' = "agg"
    /\ UNCHANGED <<asserts, syms, entry, args, dst, end, src, len, mem, mem0, memCall, log>>

\* __init_sections calls the next section function, which takes the addresses
\* of its three symbols and calls section_init(dst, end, src).
CallSection ==
    /\ pc = "agg"
    /\ idx <= Len(calls)
    /\ LET a == section_init_with_prefixes(calls[idx], syms)
       IN /\ dst' = a.dst
          /\ end' = a.end
          /\ src' = a.src
    /\ len' = 0
    /\ memCall' = mem
    /\ log' = Append(log, <<"call", calls[idx].name>>)
    /\ pc' = IF asserts THEN "check1" ELSE "len"
    /\ UNCHANGED <<asserts, syms, entry, args, calls, idx, mem, mem0>>

\* section_init, first assert block (only with the feature).
CheckOrderAlign ==
    /\ pc = "check1"
    /\ pc' = IF AssertOrderAlign(dst, end, src) THEN "len" ELSE "abort"
    /\ UNCHANGED <<asserts, syms, entry, args, calls, idx, dst, end, src, len,
                   mem, mem0, memCall, log>>

\* let len = end.offset_from(dst) as usize;
ComputeLen ==
    /\ pc = "len"
    /\ len' \in offset_from(end, dst)
    /\ pc' = IF asserts THEN "check2" ELSE "copy"
    /\ UNCHANGED <<asserts, syms, entry, args, calls, idx, dst, end, src,
                   mem, mem0, memCall, log>>

\* section_init, second assert block (only with the feature).
CheckNoOverlap ==
    /\ pc = "check2"
    /\ pc' = IF AssertNoOverlap(src, dst, len) THEN "copy" ELSE "abort"
    /\ UNCHANGED <<asserts, syms, entry, args, calls, idx, dst, end, src, len,
                   mem, mem0, memCall, log>>

\* copy_nonoverlapping(src, dst, len)
Copy ==
    /\ pc = "copy"
    /\ \E r \in copy_nonoverlapping(mem, src, dst, len) :
          /\ mem' = r.mem
          /\ pc' = IF r.fault THEN "fault" ELSE "ret"
    /\ UNCHANGED <<asserts, syms, entry, args, calls, idx, dst, end, src, len,
                   mem0, memCall, log>>

\* section_init and the section function return to __init_sections.
ReturnSection ==
    /\ pc = "ret"
    /\ log' = Append(log, <<"ret", calls[idx].name>>)
    /\ idx' = idx + 1
    /\ pc' = "agg"
    /\ UNCHANGED <<asserts, syms, entry, args, calls, dst, end, src, len,
                   mem, mem0, memCall>>

\* __init_sections has called every section function and returns to pre_init.
AggregatorReturn ==
    /\ pc = "agg"
    /\ idx > Len(calls)
    /\ pc' = "returned"
    /\ UNCHANGED <<asserts, syms, entry, args, calls, idx, dst, end, src, len,
                   mem, mem0, memCall, log>>

Next ==
    \/ PreInit
    \/ CallSection
    \/ CheckOrderAlign
    \/ ComputeLen
    \/ CheckNoOverlap
    \/ Copy
    \/ ReturnSection
    \/ AggregatorReturn

\* One section, the default convention, every descriptor.
Init == InitFrom({SubSeq(NamePool, 1, 1)}, {Shorthand}, {DefaultPrefixes}, AllDescriptors)

Spec == Init /\ [][Next]_vars

\* Descriptors for lists of sections: every one-word section on word
\* addresses (source and destination equal included), and one descriptor of
\* each other kind: empty with src = dst, empty, misaligned, reversed, two
\* words whose source starts inside the destination or whose destination
\* starts inside the source, two words with the source behind the destination,
\* and two half-word sections of which the second reads what the first writes.
OneWordDescriptors == {<<d, d + WordSize, s>> : d \in WordAddrs, s \in WordAddrs}
EdgeDescriptors ==
    {<<0, 0, 0>>, <<4, 4, 0>>, <<2, 6, 8>>, <<4, 0, 8>>, <<0, 8, 4>>,
     <<4, 12, 0>>, <<0, 8, 8>>, <<0, 2, 4>>, <<8, 10, 0>>}
ListDescriptors == OneWordDescriptors \cup EdgeDescriptors

\* Lists of up to MaxRegions sections, the default convention.
InitAgg == InitFrom(NameLists, {Shorthand}, {DefaultPrefixes}, ListDescriptors)

SpecAgg == InitAgg /\ [][Next]_vars

\* Descriptors for the comparison of the two macros: one-word sections whose
\* three addresses differ, and one whose source is its destination.
MacroDescriptors ==
    {<<d, d + WordSize, (d + 2 * WordSize) % MemBytes>> : d \in WordAddrs}
    \cup {<<0, WordSize, 0>>}

\* Either macro, either convention.
InitMacro ==
    InitFrom(NameLists, {Shorthand, Explicit}, {DefaultPrefixes, CustomPrefixes},
             MacroDescriptors)

SpecMacro == InitMacro /\ [][Next]_vars

\* ------------------------------------------------- vocabulary of the claims

\* The run is inside section_init, or has just left it by a return, an abort
\* or a fault; dst, end and src are then the descriptor of that call.
InCall == pc \in {"check1", "len", "check2", "copy", "ret", "abort", "fault"}

Aligned(a) == a % 4 = 0
AllAligned(d, e, s) == Aligned(d) /\ Aligned(e) /\ Aligned(s)

\* The half-open byte ranges [a, a + n) and [b, b + n) have a byte in common.
Intersect(a, b, n) == \E x \in 0 .. (MemBytes - 1) : x >= a /\ x < a + n /\ x >= b /\ x < b + n

\* Every byte of [d, d + n) in memory m equals the byte at the same offset of
\* [s, s + n) in memory m1.
SameBytes(m, d, m1, s, n) == \A o \in 0 .. (n - 1) : m[d + o] = m1[s + o]

\* Memory m with the n bytes at s laid over the n bytes at d.
Overlay(m, d, s, n) ==
    [b \in Bytes |-> IF b >= d /\ b < d + n THEN m[s + (b - d)] ELSE m[b]]

\* ---------------------------------------------------------------- claim C1
\* C1: for a descriptor with dest_start <= dest_end, all three addresses 4-byte
\* aligned and disjoint source and destination byte ranges, when section_init
\* has returned every byte of [dest_start, dest_end) equals the byte at the
\* same offset of the source range as it was when the call started: exactly
\* dest_end - dest_start bytes are copied.
C1_CopiesWholeRange ==
    (pc = "ret" /\ dst <= end /\ AllAligned(dst, end, src)
        /\ ~Intersect(src, dst, end - dst))
    => SameBytes(mem, dst, memCall, src, end - dst)

\* C1's case: a two-word region with a disjoint source has been copied.
C1_Witness ==
    /\ pc = "ret"
    /\ end - dst = 8
    /\ AllAligned(dst, end, src)
    /\ ~Intersect(src, dst, 8)
    /\ mem # memCall

\* ---------------------------------------------------------------- claim C2
\* C2: with the asserts feature, for a descriptor with dest_start <= dest_end,
\* all addresses 4-byte aligned and length > 0 whose source byte range
\* intersects its destination byte range, section_init aborts and never
\* reaches the copy, so no byte is written.
C2_OverlapAborts ==
    (asserts /\ InCall /\ dst < end /\ AllAligned(dst, end, src)
        /\ Intersect(src, dst, end - dst))
    => (pc \in {"check1", "len", "check2", "abort"} /\ mem = memCall)

\* ---------------------------------------------------------------- claim C3
\* C3: with the asserts feature, for a descriptor in which dest_start, dest_end
\* or src_start is not a multiple of 4, or dest_start > dest_end, section_init
\* aborts before the length is computed and before any copy: the run is at
\* the first assert block or aborted, len is not yet assigned, memory is as it
\* was at the call, and the step out of the first assert block is the abort.
C3_BadDescriptor == ~AllAligned(dst, end, src) \/ dst > end

C3_AbortsBeforeLength ==
    /\ [](asserts /\ InCall /\ C3_BadDescriptor
            => pc \in {"check1", "abort"} /\ len = 0 /\ mem = memCall)
    /\ [][asserts /\ pc = "check1" /\ C3_BadDescriptor => pc' = "abort"]_vars

\* C3's case: a misaligned dest_start has aborted the validating build.
C3_Witness ==
    asserts /\ pc = "abort" /\ ~Aligned(dst) /\ Aligned(end) /\ Aligned(src) /\ dst <= end

\* ---------------------------------------------------------------- claim C5
\* C5: for a zero-length region (dest_start = dest_end, aligned) and every
\* aligned src_start, src_start = dest_start included, section_init in either
\* build returns without abort and leaves every byte of memory unchanged.
C5_EmptyRegionIsNoOp ==
    (InCall /\ dst = end /\ AllAligned(dst, end, src))
    => (pc \notin {"abort", "fault"} /\ mem = memCall)

\* --------------------------------------------------------------- claim C10
\* C10: for a descriptor with dest_start < dest_end, all addresses aligned and
\* disjoint source and destination byte ranges (the ranges may touch),
\* section_init with asserts does not abort, and in either build the memory
\* at its return is the one memory the descriptor determines: the memory of
\* the call with the source bytes laid over the destination.
C10_ValidDescriptor ==
    dst < end /\ AllAligned(dst, end, src) /\ ~Intersect(src, dst, end - dst)

C10_ValidationTransparent ==
    (InCall /\ C10_ValidDescriptor)
    => /\ pc \notin {"abort", "fault"}
       /\ pc = "ret" => mem = Overlay(memCall, dst, src, end - dst)

\* C10's case: the validating build has copied a region whose source starts
\* where the destination ends.
C10_Witness ==
    asserts /\ pc = "ret" /\ dst < end /\ src = end /\ AllAligned(dst, end, src)

\* --------------------------------------------- vocabulary for lists of sections

\* The declared list, as the caller wrote it: names, and <<name, beg, end, src>>.
NumDeclared == Len(args)
DeclaredNames == [i \in 1 .. Len(args) |-> IF entry = Shorthand THEN args[i] ELSE args[i][1]]
DeclaredItem(i) ==
    IF entry = Shorthand THEN <<args[i], "__s", "__e", "__si">> ELSE args[i]

\* The descriptor <<dest_start, dest_end, src_start>> the linker script gives
\* the i-th declared section.
RegionOf(i) ==
    LET a == DeclaredItem(i)
    IN <<syms[a[2] \o a[1]], syms[a[3] \o a[1]], syms[a[4] \o a[1]]>>

\* The calls and returns of a complete run: call r1, ret r1, call r2, ...
FullLog ==
    [j \in 1 .. (2 * NumDeclared) |->
        <<IF j % 2 = 1 THEN "call" ELSE "ret", DeclaredNames[(j + 1) \div 2]>>]

IsPrefix(s, u) == Len(s) <= Len(u) /\ \A j \in 1 .. Len(s) : s[j] = u[j]

Ended == pc \in {"returned", "abort", "fault"}

\* ---------------------------------------------------------------- claim C4
\* C4 as stated: for every declared list [r1, ..., rn] one run of
\* __init_sections invokes the initializer of every ri exactly once, in
\* order, each completing before the next starts, none undeclared, and then
\* returns: every run that ends has ended by the return, with the complete log.
C4_EveryRunCompletes ==
    /\ IsPrefix(log, FullLog)
    /\ Ended => (pc = "returned" /\ log = FullLog)

\* C4, amended: in every run the initializers are invoked in declared order,
\* each at most once, ri returning (its copy finished) before r(i+1) is
\* called, none undeclared; a run that is not ended by an abort or a fault
\* goes on until every ri has been invoked exactly once and then returns; a
\* run that rk aborts has invoked exactly r1 .. rk and never returns.
C4_OrderedUntilAbort ==
    /\ IsPrefix(log, FullLog)
    /\ pc \in {"check1", "len", "check2", "copy", "ret", "abort", "fault"}
          => Len(log) = 2 * idx - 1
    /\ pc = "agg" => Len(log) = 2 * (idx - 1)
    /\ pc = "returned" => log = FullLog
    /\ ~Ended => ENABLED Next

\* C4's case: a list of two sections has run to the aggregator's return.
C4_Witness ==
    pc = "returned" /\ NumDeclared = 2 /\ log = FullLog /\ mem # mem0

\* ---------------------------------------------------------------- claim C6
\* Both source ranges and both destination ranges of descriptors a and b are
\* pairwise disjoint.
C6_PairwiseDisjoint(a, b) ==
    LET na == a[2] - a[1]
        nb == b[2] - b[1]
        meet(x, n, y, k) == \E z \in Bytes : z >= x /\ z < x + n /\ z >= y /\ z < y + k
    IN /\ ~meet(a[3], na, a[1], na)
       /\ ~meet(b[3], nb, b[1], nb)
       /\ ~meet(a[1], na, b[1], nb)
       /\ ~meet(a[3], na, b[3], nb)
       /\ ~meet(a[3], na, b[1], nb)
       /\ ~meet(b[3], nb, a[1], na)

\* After the run, each destination holds its own source and nothing outside
\* the two destinations has changed.
C6_BothInitialized(a, b) ==
    /\ SameBytes(mem, a[1], mem0, a[3], a[2] - a[1])
    /\ SameBytes(mem, b[1], mem0, b[3], b[2] - b[1])
    /\ \A z \in Bytes :
          (~(z >= a[1] /\ z < a[2]) /\ ~(z >= b[1] /\ z < b[2])) => mem[z] = mem0[z]

\* C6 as stated: section_init writes only addresses in [dest_start, dest_end),
\* and two sections declared together whose four ranges are pairwise disjoint
\* are, when the aggregator has returned, each equal to its own source, with
\* no byte outside the two destinations changed (the two orders are the two
\* assignments of the descriptors to r1 and r2).
C6_WritesOnlyDestination ==
    /\ InCall => \A z \in Bytes : (z < dst \/ z >= end) => mem[z] = memCall[z]
    /\ (pc = "returned" /\ NumDeclared = 2
            /\ C6_PairwiseDisjoint(RegionOf(1), RegionOf(2)))
       => C6_BothInitialized(RegionOf(1), RegionOf(2))

\* C6, amended: in the validating build, or when dest_start <= dest_end,
\* section_init writes only addresses in [dest_start, dest_end); and two
\* sections whose addresses are all 4-byte aligned with dest_start <=
\* dest_end and whose four ranges are pairwise disjoint are, when the
\* aggregator has returned, each equal to its own source, with no byte
\* outside the two destinations changed.
C6_WellFormed(r) == r[1] <= r[2] /\ AllAligned(r[1], r[2], r[3])

C6_WritesOnlyDestinationWellFormed ==
    /\ (InCall /\ (asserts \/ dst <= end))
       => \A z \in Bytes : (z < dst \/ z >= end) => mem[z] = memCall[z]
    /\ (pc = "returned" /\ NumDeclared = 2
            /\ C6_WellFormed(RegionOf(1)) /\ C6_WellFormed(RegionOf(2))
            /\ C6_PairwiseDisjoint(RegionOf(1), RegionOf(2)))
       => C6_BothInitialized(RegionOf(1), RegionOf(2))

\* C6's case: two non-empty aligned sections with pairwise disjoint ranges
\* have both been initialised.
C6_Witness ==
    /\ pc = "returned" /\ NumDeclared = 2
    /\ C6_WellFormed(RegionOf(1)) /\ C6_WellFormed(RegionOf(2))
    /\ RegionOf(1)[1] < RegionOf(1)[2] /\ RegionOf(2)[1] < RegionOf(2)[2]
    /\ C6_PairwiseDisjoint(RegionOf(1), RegionOf(2))

\* ---------------------------------------------------------------- claim C7
\* Descriptors A and B have equal length, B's source range is A's destination
\* range, A's source, A's destination and B's destination are disjoint, and
\* A's destination differs from A's source before initialisation.
C7_Chained(A, B) ==
    LET n == A[2] - A[1]
    IN /\ n > 0
       /\ B[2] - B[1] = n
       /\ B[3] = A[1]
       /\ ~Intersect(A[3], A[1], n)
       /\ ~Intersect(A[3], B[1], n)
       /\ ~Intersect(A[1], B[1], n)
       /\ ~SameBytes(mem0, A[1], mem0, A[3], n)

\* B's destination now holds A's source image.
C7_SeesWritten(A, B) == SameBytes(mem, B[1], mem0, A[3], A[2] - A[1])
\* B's destination now holds what A's destination held before initialisation.
C7_SeesInitial(A, B) == SameBytes(mem, B[1], mem0, A[1], A[2] - A[1])

\* C7 as stated: when the aggregator has returned, B's destination equals A's
\* source image if and only if A precedes B in the declared list; when B
\* precedes A it equals the content A's destination held before.
C7_OrderDecides ==
    (pc = "returned" /\ NumDeclared = 2)
    => /\ C7_Chained(RegionOf(1), RegionOf(2))
             => C7_SeesWritten(RegionOf(1), RegionOf(2))
       /\ C7_Chained(RegionOf(2), RegionOf(1))
             => /\ C7_SeesInitial(RegionOf(2), RegionOf(1))
                /\ ~C7_SeesWritten(RegionOf(2), RegionOf(1))

\* C7, amended: the same, for sections A and B whose addresses are all
\* 4-byte aligned.
C7_AlignedPair(A, B) == AllAligned(A[1], A[2], A[3]) /\ AllAligned(B[1], B[2], B[3])

C7_OrderDecidesAligned ==
    (pc = "returned" /\ NumDeclared = 2
        /\ C7_AlignedPair(RegionOf(1), RegionOf(2)))
    => /\ C7_Chained(RegionOf(1), RegionOf(2))
             => C7_SeesWritten(RegionOf(1), RegionOf(2))
       /\ C7_Chained(RegionOf(2), RegionOf(1))
             => /\ C7_SeesInitial(RegionOf(2), RegionOf(1))
                /\ ~C7_SeesWritten(RegionOf(2), RegionOf(1))

\* C7's case: A was declared before B, both aligned, and the run has returned.
C7_Witness ==
    /\ pc = "returned" /\ NumDeclared = 2
    /\ C7_AlignedPair(RegionOf(1), RegionOf(2))
    /\ C7_Chained(RegionOf(1), RegionOf(2))

\* ---------------------------------------------------------------- claim C9
\* The destination range of the i-th declared section is as it was before
\* initialisation.
C9_DestinationUntouched(i) ==
    \A z \in Bytes : (z >= RegionOf(i)[1] /\ z < RegionOf(i)[2]) => mem[z] = mem0[z]

\* C9 as stated: with the asserts feature, when a run has aborted no initializer
\* after rk was invoked and no declared section's destination range has been
\* modified: a run ends with all sections initialised or with none.
C9_AbortLeavesNothingWritten ==
    (asserts /\ pc = "abort")
    => /\ Len(log) = 2 * idx - 1
       /\ \A i \in 1 .. NumDeclared : C9_DestinationUntouched(i)

\* The assertions of section_init hold of descriptor r: dest_start <=
\* dest_end, the three addresses are multiples of 4 and, with len the length
\* in words, src_start > dest_start + len or src_start + len < dest_start.
C9_AssertionsHold(r) ==
    /\ r[1] <= r[2]
    /\ r[1] % 4 = 0 /\ r[2] % 4 = 0 /\ r[3] % 4 = 0
    /\ LET words == (r[2] - r[1]) \div 4
       IN r[3] > r[1] + words \/ r[3] + words < r[1]

\* The source and destination byte ranges of descriptor r are disjoint.
C9_Disjoint(r) == ~Intersect(r[3], r[1], r[2] - r[1])

\* Memory after the copies of the first k declared sections, one after the other.
RECURSIVE C9_After(_)
C9_After(k) ==
    IF k = 0 THEN mem0
    ELSE Overlay(C9_After(k - 1), RegionOf(k)[1], RegionOf(k)[3],
                 RegionOf(k)[2] - RegionOf(k)[1])

\* C9, amended: with the asserts feature a run never faults and goes on until
\* it has returned or aborted; when it has aborted, in the initializer of rk,
\* rk is the first declared section that
\* fails an assertion of section_init, exactly r1 .. rk were invoked, rk has
\* written nothing, and the copies of r1 .. r(k-1) stand (memory is what
\* their copies, in order, make of the initial memory, when each of them has
\* disjoint ranges); when it has returned every section passed its assertions
\* and was initialised.  A run ends with all sections initialised or aborted
\* with exactly those before rk initialised.
C9_AbortKeepsEarlierCopies ==
    asserts
    => /\ pc # "fault"
       /\ ~Ended => ENABLED Next
       /\ pc = "abort"
            => /\ Len(log) = 2 * idx - 1
               /\ IsPrefix(log, FullLog)
               /\ mem = memCall
               /\ ~C9_AssertionsHold(RegionOf(idx))
               /\ \A i \in 1 .. (idx - 1) : C9_AssertionsHold(RegionOf(i))
               /\ (\A i \in 1 .. (idx - 1) : C9_Disjoint(RegionOf(i)))
                     => mem = C9_After(idx - 1)
       /\ pc = "returned"
            => /\ log = FullLog
               /\ \A i \in 1 .. NumDeclared : C9_AssertionsHold(RegionOf(i))
               /\ (\A i \in 1 .. NumDeclared : C9_Disjoint(RegionOf(i)))
                     => mem = C9_After(NumDeclared)

\* C9's case: the second section aborted after the first had been copied.
C9_Witness ==
    asserts /\ pc = "abort" /\ idx = 2 /\ mem # mem0

\* ---------------------------------------------------------------- claim C8
\* C8: init_sections!(n1, ..., nk) behaves like init_sections_with_prefixes!(
\* n1(__s, __e, __si), ..., nk(__s, __e, __si)): the generated aggregator is the
\* one the explicit form generates, its sections are called in the same order,
\* and the call for ni receives the addresses of the symbols __s ++ ni,
\* __e ++ ni and __si ++ ni as dst, end and src.  The run after the expansion
\* depends on the generated aggregator, the symbols, the build and memory
\* alone, so both forms reach the same memory or abort at the same section.
C8_ExplicitForm == [i \in 1 .. Len(args) |-> <<args[i], "__s", "__e", "__si">>]

C8_ShorthandIsDefaultPrefixes ==
    entry = Shorthand
    => /\ pc # "pre_init"
            => calls = [i \in 1 .. Len(args) |->
                          [name |-> C8_ExplicitForm[i][1], beg |-> C8_ExplicitForm[i][2],
                           end |-> C8_ExplicitForm[i][3], src |-> C8_ExplicitForm[i][4]]]
       /\ InCall
            => /\ dst = syms["__s" \o args[idx]]
               /\ end = syms["__e" \o args[idx]]
               /\ src = syms["__si" \o args[idx]]
               /\ log[Len(log)] = <<"call", args[idx]>>

\* C8's case: the shorthand has initialised two sections.
C8_Witness ==
    entry = Shorthand /\ pc = "returned" /\ Len(args) = 2 /\ mem # mem0

====
